---- MODULE Spec2Model ----
(***************************************************************************)
(* The visitor-info hook (useVisitorInfo) of the site template: one        *)
(* mounted component instance, its two effects (geolocation lookup and     *)
(* repeating clock timer), the asynchronous callbacks they leave behind,   *)
(* and the helpers they call (fetchGeoLocation, formatTime,                *)
(* randomInRange).                                                         *)
(*                                                                         *)
(* One "activation" is one run of the hook's effects, ended by the         *)
(* effects' cleanup.  Under React StrictMode (development build) the       *)
(* effects of a freshly mounted component are run, cleaned up and run      *)
(* again synchronously, which gives two activations on one component.      *)
(***************************************************************************)
EXTENDS Integers, Sequences, FiniteSets, TLC

\* ------------------------------------------------------------------------
\* Bounds of the model
\* ------------------------------------------------------------------------
MaxNow == 2          \* seconds of wall-clock time that may pass
RandDenom == 1000    \* Math.random() is drawn as k / RandDenom, 0 <= k < RandDenom

\* ------------------------------------------------------------------------
\* JavaScript values
\* ------------------------------------------------------------------------
null == "null"                 \* null in a string-typed slot (error)
undefined == "undefined"       \* undefined in a string-typed slot
NoLocation == [absent |-> TRUE]  \* location === null
RangeError == "RangeError"     \* formatTime threw instead of returning

\* JS `a || b` on string-or-undefined operands: "" and undefined are falsy
Or(a, b) == IF a \in {undefined, ""} THEN b ELSE a

\* ------------------------------------------------------------------------
\* Time formatting (utils/helpers formatTime)
\* ------------------------------------------------------------------------
SystemTimeZone == "UTC"        \* the client's own zone
ValidTimeZones == {"UTC", "Europe/Paris"}
UtcOffsetHours(tz) == IF tz = "Europe/Paris" THEN 1 ELSE 0
ClockAtStart == 12 * 3600 - 2  \* 11:59:58 in the system zone when the page loads

Pad2(n) == IF n < 10 THEN "0" \o ToString(n) ELSE ToString(n)

\* hour12: true, hour/minute/second: '2-digit'
Format12(secs) ==
  LET h24 == secs \div 3600
      m   == (secs % 3600) \div 60
      s   == secs % 60
      h12 == IF h24 % 12 = 0 THEN 12 ELSE h24 % 12
  IN Pad2(h12) \o ":" \o Pad2(m) \o ":" \o Pad2(s) \o
       (IF h24 < 12 THEN " AM" ELSE " PM")

\* formatTime(timezone): the timeZone option is only passed when timezone is
\* truthy; Intl.DateTimeFormat throws a RangeError on an unknown zone.
formatTime(timezone, t) ==
  LET tz == Or(timezone, SystemTimeZone)
  IN IF tz \notin ValidTimeZones THEN RangeError
     ELSE Format12((ClockAtStart + t + 3600 * UtcOffsetHours(tz)) % 86400)

\* ------------------------------------------------------------------------
\* Visitor count (generateVisitorCount, randomInRange)
\* ------------------------------------------------------------------------
baseCount == 1247
maxVariation == 50

RandomDraws == {0, 1, RandDenom \div 2, RandDenom - 1}

randomInRangeOffByOne(min, max, k) == ((k * (max - min + 2)) \div RandDenom) + min

\* Math.floor(Math.random() * (max - min + 1)) + min, with Math.random() = k/RandDenom
randomInRange(min, max, k) == ((k * (max - min + 1)) \div RandDenom) + min

generateVisitorCount(k) == baseCount + randomInRange(0, maxVariation, k)

\* ------------------------------------------------------------------------
\* Geolocation lookup (fetchGeoLocation)
\* ------------------------------------------------------------------------
Fields == {"city", "country_name", "country_code", "region", "timezone"}

ParisBody == [city |-> "Paris", country_name |-> "France", country_code |-> "FR",
              region |-> "IDF", timezone |-> "Europe/Paris"]
EmptyBody == [f \in Fields |-> undefined]

\* every body whose fields are absent, empty or the Paris value
AllBodies == [Fields -> {undefined, ""}] \cup
             { [f \in Fields |-> IF f \in S THEN ParisBody[f] ELSE e[f]] :
                  S \in SUBSET Fields, e \in [Fields -> {undefined, ""}] }

\* what the endpoint can answer: the request rejects, the status is not 2xx,
\* the body is not JSON, the body is the JSON value null, or a JSON object
FailureKinds == {"network_error", "http_error", "parse_error", "json_null"}
Failures == { [kind |-> k, data |-> EmptyBody] : k \in FailureKinds }
JsonResponse(d) == [kind |-> "json", data |-> d]
Pending == [kind |-> "pending", data |-> EmptyBody]   \* no answer yet

\* the same without the `|| placeholder` of the city field
fetchGeoLocationNoFallback(response) ==
  IF response.kind # "json" THEN NoLocation
  ELSE [city        |-> response.data.city,
        country     |-> Or(response.data.country_name, "Unknown"),
        countryCode |-> Or(response.data.country_code, "XX"),
        region      |-> Or(response.data.region, ""),
        timezone    |-> Or(response.data.timezone, SystemTimeZone)]

\* the same with `data?.city` and so on: a JSON null body reads as an empty one
fetchGeoLocationNullAsEmpty(response) ==
  IF response.kind \notin {"json", "json_null"} THEN NoLocation
  ELSE [city        |-> Or(response.data.city, "Unknown"),
        country     |-> Or(response.data.country_name, "Unknown"),
        countryCode |-> Or(response.data.country_code, "XX"),
        region      |-> Or(response.data.region, ""),
        timezone    |-> Or(response.data.timezone, SystemTimeZone)]

\* returns the location, or NoLocation (null) when anything threw
fetchGeoLocation(response) ==
  IF response.kind # "json" THEN NoLocation
  ELSE [city        |-> Or(response.data.city, "Unknown"),
        country     |-> Or(response.data.country_name, "Unknown"),
        countryCode |-> Or(response.data.country_code, "XX"),
        region      |-> Or(response.data.region, ""),
        timezone    |-> Or(response.data.timezone, SystemTimeZone)]

\* the responses the hook is run against
Responses == Failures \cup
             { JsonResponse(d) : d \in
                 { ParisBody, EmptyBody,
                   [ParisBody EXCEPT !.timezone = undefined],
                   [ParisBody EXCEPT !.timezone = "Mars/Phobos"],
                   [ParisBody EXCEPT !.city = "", !.region = undefined] } }

\* ------------------------------------------------------------------------
\* Hook options (UseVisitorInfoOptions, DEFAULT_OPTIONS)
\* ------------------------------------------------------------------------
JsUndefined == [type |-> "undefined"]
JsBool(b) == [type |-> "boolean", v |-> b]
JsNum(n) == [type |-> "number", v |-> n]

OptionKeys == {"autoUpdateTime", "timeUpdateInterval", "fetchLocation"}

DEFAULT_OPTIONS == [autoUpdateTime     |-> JsBool(TRUE),
                    timeUpdateInterval |-> JsNum(1000),
                    fetchLocation      |-> JsBool(TRUE)]

\* what a caller can pass for a key that it passes at all: every optional
\* field admits undefined
OptionValues(k) ==
  IF k = "timeUpdateInterval"
  THEN {JsUndefined, JsNum(250), JsNum(1000), JsNum(5000)}
  ELSE {JsUndefined, JsBool(TRUE), JsBool(FALSE)}

\* the objects a caller can pass: any subset of the keys
OptionObjects ==
  UNION { { o \in [K -> UNION {OptionValues(k) : k \in OptionKeys}] :
               \A k \in K : o[k] \in OptionValues(k) } :
          K \in SUBSET OptionKeys }

\* { ...a, ...b }
Spread(a, b) ==
  [k \in DOMAIN a \cup DOMAIN b |-> IF k \in DOMAIN b THEN b[k] ELSE a[k]]

\* the spreads in the wrong order
mergeOptionsDefaultsLast(options) == Spread(options, DEFAULT_OPTIONS)

\* const config = { ...DEFAULT_OPTIONS, ...options }
mergeOptions(options) == Spread(DEFAULT_OPTIONS, options)

\* truthiness of an option, as `!config.x` reads it
Truthy(v) ==
  CASE v.type = "boolean" -> v.v
    [] v.type = "number" -> v.v # 0
    [] OTHER -> FALSE

\* the two switches the effects read
EffectiveConfig(c) == [autoUpdateTime |-> Truthy(c.autoUpdateTime),
                       fetchLocation  |-> Truthy(c.fetchLocation)]

MergeIdle == [options |-> << >>, config |-> << >>, done |-> FALSE]

\* no render with changed options has happened
RerenderIdle == [stale |-> {}, count |-> 0]

\* ------------------------------------------------------------------------
\* State
\* ------------------------------------------------------------------------
VARIABLES
  visitorCount,   \* useState(() => generateVisitorCount())
  location,       \* useState(null)
  currentTime,    \* useState('')
  isLoading,      \* useState(true)
  error,          \* useState(null)
  config,         \* merged options of this component instance
  strictMode,     \* development build: StrictMode re-runs the effects at mount
  phase,          \* "rendered" (effects not yet run), "active", "unmounted", "crashed"
  requests,       \* lookups issued so far: [run, status, response received]
  isMounted,      \* isMounted[r]: the flag captured by the r-th run of the fetch effect
  timers,         \* live intervals: [id, timezone captured by the callback]
  intervalId,     \* interval owned by the current run of the timer effect, 0 if none
  intervalCount,  \* number of setInterval calls so far
  timerDep,       \* location?.timezone as of the last run of the timer effect
  now,            \* seconds since page load
  geo,            \* one call of fetchGeoLocation on its own: [response, locationData, done]
  merge,          \* one merge of caller options on its own: [options, config, done]
  rerender        \* renders with new options: [stale: effects whose deps changed, count]

VARIABLES
  formData,       \* useState({ name: '', ... })
  errors,         \* useState({}): keys of the fields with a recorded error
  isSubmitting,   \* useState(false)
  isSubmitted,    \* useState(false)
  timeouts        \* pending setTimeout callbacks in creation order: [kind, remaining ms]

formVars == <<formData, errors, isSubmitting, isSubmitted, timeouts>>

VARIABLES
  pathname,       \* useLocation().pathname
  isMenuOpen,     \* useState(false)
  isScrolled,     \* useState(false)
  bodyOverflow,   \* document.body.style.overflow
  navPhase,       \* "rendered" (effects not yet run), "mounted", "unmounted"
  activeLinks     \* hrefs of the links the last render marked as active

navVars == <<pathname, isMenuOpen, isScrolled, bodyOverflow, navPhase, activeLinks>>

vars == <<visitorCount, location, currentTime, isLoading, error, config,
          strictMode, phase, requests, isMounted, timers, intervalId,
          intervalCount, timerDep, now, geo, merge, rerender, formVars, navVars>>

snapshot == <<visitorCount, location, currentTime, isLoading, error>>

\* the mutable part of the state as one record, so that the steps of one
\* handler can be composed
St == [location |-> location, currentTime |-> currentTime,
       isLoading |-> isLoading, error |-> error, phase |-> phase,
       requests |-> requests, isMounted |-> isMounted, timers |-> timers,
       intervalId |-> intervalId, intervalCount |-> intervalCount,
       timerDep |-> timerDep]

Commit(s) ==
  /\ location' = s.location
  /\ currentTime' = s.currentTime
  /\ isLoading' = s.isLoading
  /\ error' = s.error
  /\ phase' = s.phase
  /\ requests' = s.requests
  /\ isMounted' = s.isMounted
  /\ timers' = s.timers
  /\ intervalId' = s.intervalId
  /\ intervalCount' = s.intervalCount
  /\ timerDep' = s.timerDep

\* location?.timezone
LocTz(loc) == IF loc = NoLocation THEN undefined ELSE loc.timezone

\* ------------------------------------------------------------------------
\* Contact page: the form's values and validation.  Strings are sequences
\* of characters, so that trim, length and the e-mail pattern are computed.
\* ------------------------------------------------------------------------
FormFields == {"name", "email", "company", "subject", "message"}

EmptyForm == [name |-> << >>, email |-> << >>, company |-> << >>,
              subject |-> << >>, message |-> << >>]

NineChars == <<"p", "l", "s", " ", "c", "a", "l", "l", "!">>

\* what may be typed into each field
FieldValues(f) ==
  CASE f = "name"    -> { << >>, <<" ">>, <<" ", "A", " ">>, <<"A", "l">> }
    [] f = "email"   -> { << >>, <<" ">>, <<"a", "@", "b">>,
                          <<" ", "a", "@", "b", ".", "c">>,
                          <<"a", "@", "b", ".", "c">> }
    [] f = "company" -> { << >>, <<"X">> }
    [] f = "subject" -> { << >>, <<"w", "e", "b">> }
    [] f = "message" -> { << >>, <<" ", " ">>, NineChars, <<" ">> \o NineChars,
                          <<"!">> \o NineChars }

IsSpace(c) == c \in {" ", "\t", "\n"}

\* String.prototype.trim
trim(str) ==
  LET keep == { i \in 1..Len(str) : ~IsSpace(str[i]) }
  IN IF keep = {} THEN << >>
     ELSE SubSeq(str, CHOOSE i \in keep : \A j \in keep : i <= j,
                      CHOOSE i \in keep : \A j \in keep : i >= j)

\* /^[^\s@]+@[^\s@]+\.[^\s@]+$/
isValidEmail(email) ==
  /\ Cardinality({ i \in 1..Len(email) : email[i] = "@" }) = 1
  /\ \A i \in 1..Len(email) : ~IsSpace(email[i])
  /\ \E a \in 2..Len(email) :
        /\ email[a] = "@"
        /\ \E d \in (a + 2)..(Len(email) - 1) : email[d] = "."

ValidatedFields == {"name", "email", "subject", "message"}

\* the message validateForm records for one field, undefined if none
FieldError(f, fd) ==
  CASE f = "name" ->
         IF trim(fd.name) = << >> THEN "Name is required"
         ELSE IF Len(trim(fd.name)) < 2 THEN "Name must be at least 2 characters"
         ELSE undefined
    [] f = "email" ->
         IF trim(fd.email) = << >> THEN "Email is required"
         ELSE IF ~isValidEmail(fd.email) THEN "Please enter a valid email address"
         ELSE undefined
    [] f = "subject" ->
         IF fd.subject = << >> THEN "Please select a subject" ELSE undefined
    [] f = "message" ->
         IF trim(fd.message) = << >> THEN "Message is required"
         ELSE IF Len(trim(fd.message)) < 10 THEN "Message must be at least 10 characters"
         ELSE undefined

\* validateForm with the message length taken before trimming
validateFormUntrimmed(fd) ==
  LET err(f) == IF f = "message" /\ trim(fd.message) # << >>
                THEN (IF Len(fd.message) < 10
                      THEN "Message must be at least 10 characters" ELSE undefined)
                ELSE FieldError(f, fd)
  IN [f \in { g \in ValidatedFields : err(g) # undefined } |-> err(f)]

\* newErrors of validateForm: one key per invalid field
validateForm(fd) ==
  [f \in { g \in ValidatedFields : FieldError(g, fd) # undefined } |-> FieldError(f, fd)]

\* Object.keys(newErrors).length === 0
NoKeys(newErrors) == DOMAIN newErrors = {}

\* errors[name], undefined when the key is missing
ErrorOf(errs, f) == IF f \in DOMAIN errs THEN errs[f] ELSE undefined

\* ------------------------------------------------------------------------
\* Contact page: state and handlers
\* ------------------------------------------------------------------------
SendDelay == 1500
ResetDelay == 3000
TimeStep == SendDelay \div 3   \* granularity of passing time, in ms

FormSt == [formData |-> formData, errors |-> errors,
           isSubmitting |-> isSubmitting, isSubmitted |-> isSubmitted,
           timeouts |-> timeouts]

CommitForm(f) ==
  /\ formData' = f.formData
  /\ errors' = f.errors
  /\ isSubmitting' = f.isSubmitting
  /\ isSubmitted' = f.isSubmitted
  /\ timeouts' = f.timeouts

FormAtRest ==
  /\ formData = EmptyForm
  /\ errors = << >>
  /\ isSubmitting = FALSE
  /\ isSubmitted = FALSE
  /\ timeouts = << >>

\* handleChange that drops every error once any field is edited
handleChangeClearsAll(f, name, value) ==
  [f EXCEPT !.formData[name] = value,
            !.errors = IF ErrorOf(f.errors, name) # undefined
                       THEN [k \in DOMAIN f.errors \cup {name} |-> undefined]
                       ELSE f.errors]

\* handleChange: set the field, clear its error if it has one
handleChange(f, name, value) ==
  [f EXCEPT !.formData[name] = value,
            !.errors = IF ErrorOf(f.errors, name) # undefined
                       THEN [k \in DOMAIN f.errors \cup {name} |->
                               IF k = name THEN undefined ELSE f.errors[k]]
                       ELSE f.errors]

\* handleSubmit that raises isSubmitting before it validates
handleSubmitEager(f) ==
  LET newErrors == validateForm(f.formData)
      f1 == [f EXCEPT !.errors = newErrors, !.isSubmitting = TRUE]
  IN IF ~NoKeys(newErrors) THEN f1
     ELSE [f1 EXCEPT !.timeouts = Append(@, [kind |-> "send", remaining |-> SendDelay])]

\* handleSubmit up to its await: validate, then start the simulated send
handleSubmit(f) ==
  LET newErrors == validateForm(f.formData)
      f1 == [f EXCEPT !.errors = newErrors]
  IN IF ~NoKeys(newErrors) THEN f1
     ELSE [f1 EXCEPT !.isSubmitting = TRUE,
                     !.timeouts = Append(@, [kind |-> "send", remaining |-> SendDelay])]

\* the continuation without its finally block
sendCompletedNoFinally(f) ==
  [f EXCEPT !.isSubmitted = TRUE,
            !.timeouts = Append(@, [kind |-> "reset", remaining |-> ResetDelay])]

\* handleSubmit after the await: success state, reset timer, finally
sendCompleted(f) ==
  [f EXCEPT !.isSubmitted = TRUE,
            !.timeouts = Append(@, [kind |-> "reset", remaining |-> ResetDelay]),
            !.isSubmitting = FALSE]

\* the callback of the reset timer
resetForm(f) == [f EXCEPT !.formData = EmptyForm, !.isSubmitted = FALSE]

\* drop the i-th element of a sequence
RemoveAt(seq, i) == SubSeq(seq, 1, i - 1) \o SubSeq(seq, i + 1, Len(seq))

\* timers that are due, oldest first
Due == { i \in 1..Len(timeouts) : timeouts[i].remaining <= 0 }

\* the values typed in the timed specification
TypedValues(f) ==
  CASE f = "name"    -> { << >>, <<"A", "l">> }
    [] f = "email"   -> { <<"a", "@", "b">>, <<"a", "@", "b", ".", "c">> }
    [] f = "company" -> { <<"X">> }
    [] f = "subject" -> { <<"w", "e", "b">> }
    [] f = "message" -> { NineChars, <<"!">> \o NineChars }

\* ------------------------------------------------------------------------
\* Navbar: links, pathnames and effects.  Pathnames are sequences of
\* characters, so that startsWith is computed.
\* ------------------------------------------------------------------------
NAV_LINKS == << [label |-> "Home",     href |-> <<"/">>],
                [label |-> "About",    href |-> <<"/", "a", "b", "o", "u", "t">>],
                [label |-> "Products", href |-> <<"/", "p", "r", "o", "d", "u", "c", "t", "s">>],
                [label |-> "Contact",  href |-> <<"/", "c", "o", "n", "t", "a", "c", "t">>] >>

Hrefs == { NAV_LINKS[i].href : i \in 1..Len(NAV_LINKS) }

\* the pathnames the router can report
Pathnames ==
  Hrefs \cup
  { <<"/", "a", "b", "o", "u", "t", "/", "u", "s">>,
    <<"/", "a", "b", "o", "u", "t", "u", "s">>,
    <<"/", "a", "b">>,
    <<"/", "c", "o", "n", "t", "a", "c", "t", "/">>,
    <<"/", "b", "l", "o", "g">>,
    <<"/", "b", "l", "o", "g", "/", "a", "b", "o", "u", "t">> }

\* String.prototype.startsWith
startsWith(str, prefix) ==
  /\ Len(prefix) <= Len(str)
  /\ SubSeq(str, 1, Len(prefix)) = prefix

\* isActiveLink without the special case for '/'
isActiveLinkPrefixOnly(path, href) == startsWith(path, href)

\* isActiveLink(href) in a render with location.pathname = path
isActiveLink(path, href) ==
  IF href = <<"/">> THEN path = <<"/">> ELSE startsWith(path, href)

\* the links a render marks as active
ActiveLinks(path) == { href \in Hrefs : isActiveLink(path, href) }

\* window.scrollY > 50
ScrollThreshold == 50

NavSt == [pathname |-> pathname, isMenuOpen |-> isMenuOpen,
          isScrolled |-> isScrolled, bodyOverflow |-> bodyOverflow,
          navPhase |-> navPhase, activeLinks |-> activeLinks]

CommitNav(n) ==
  /\ pathname' = n.pathname
  /\ isMenuOpen' = n.isMenuOpen
  /\ isScrolled' = n.isScrolled
  /\ bodyOverflow' = n.bodyOverflow
  /\ navPhase' = n.navPhase
  /\ activeLinks' = n.activeLinks

\* the Navbar as first rendered on the home page, effects not yet run
NavAtRest ==
  /\ pathname = <<"/">>
  /\ isMenuOpen = FALSE
  /\ isScrolled = FALSE
  /\ bodyOverflow = ""
  /\ navPhase = "rendered"
  /\ activeLinks = ActiveLinks(<<"/">>)

\* route effect that leaves the menu as it is
closeOnRouteChangeNoOp(n) == n

\* useEffect(() => setIsMenuOpen(false), [location.pathname])
closeOnRouteChange(n) == [n EXCEPT !.isMenuOpen = FALSE]

\* scroll lock cleanup that leaves the style alone
scrollLockCleanupNoOp(n) == n

\* the cleanup of the scroll lock effect
scrollLockCleanup(n) == [n EXCEPT !.bodyOverflow = ""]

\* the body of the scroll lock effect, in a render with isMenuOpen = open
scrollLockEffect(n, open) ==
  [n EXCEPT !.bodyOverflow = IF open THEN "hidden" ELSE ""]

\* a render with the given pathname and menu state, followed by its effects
\* and by the render that the route effect's setIsMenuOpen(false) causes:
\* an effect runs when its dependency differs from the previous render's
Render(n, path, open) ==
  LET r1 == [n EXCEPT !.pathname = path, !.isMenuOpen = open,
                      !.activeLinks = ActiveLinks(path)]
      l1 == IF open # n.isMenuOpen
            THEN scrollLockEffect(scrollLockCleanup(r1), open) ELSE r1
      r2 == IF path # n.pathname THEN closeOnRouteChange(l1) ELSE l1
  IN IF r2.isMenuOpen # open
     THEN scrollLockEffect(scrollLockCleanup(r2), r2.isMenuOpen)
     ELSE r2

\* the effects of the first render, which StrictMode cleans up and runs again
MountEffects(n) ==
  LET once(m) == scrollLockEffect(closeOnRouteChange(m), m.isMenuOpen)
      m1 == once(n)
  IN IF strictMode THEN once(scrollLockCleanup(m1)) ELSE m1

\* ------------------------------------------------------------------------
\* Effect: fetch geolocation data on mount
\* ------------------------------------------------------------------------
\* fetch effect without the early return for fetchLocation = false
FetchEffectNoEarlyReturn(s) ==
  LET r == Len(s.isMounted) + 1
  IN [s EXCEPT !.isMounted = Append(@, TRUE),
               !.requests = Append(@, [run |-> r, status |-> "inflight", response |-> Pending])]

\* the effect body up to and including the call fetchData(), which runs
\* synchronously until its first await: one request is in flight afterwards
FetchEffect(s) ==
  IF ~config.fetchLocation
  THEN [s EXCEPT !.isLoading = FALSE]
  ELSE LET r == Len(s.isMounted) + 1
       IN [s EXCEPT !.isMounted = Append(@, TRUE),
                    !.requests = Append(@, [run |-> r, status |-> "inflight", response |-> Pending])]

\* cleanup that leaves the flag of its run alone
FetchCleanupNoOp(s) == s

\* the cleanup returned by the effect: isMounted = false (none was returned
\* when fetchLocation is false)
FetchCleanup(s) ==
  IF Len(s.isMounted) = 0 THEN s
  ELSE [s EXCEPT !.isMounted[Len(s.isMounted)] = FALSE]

\* `if (isMounted)` read as always true
isMountedIgnored(s, r) == TRUE

\* `if (isMounted)` in fetchData, for the run r that issued the request
isMountedGuard(s, r) == s.isMounted[r]

\* finally block that leaves isLoading alone
finallyNoOp(s) == s

\* finally { setIsLoading(false) }
finallyBlock(s) == [s EXCEPT !.isLoading = FALSE]

\* fetchData that issues the request again when the lookup failed
fetchDataRetry(s, i, response) ==
  LET r == s.requests[i].run
      locationData == fetchGeoLocation(response)
      s0 == [s EXCEPT !.requests[i].status =
                 IF locationData = NoLocation THEN "failed" ELSE "ok",
                      !.requests[i].response = response]
  IN IF ~isMountedGuard(s, r) THEN s0
     ELSE IF locationData # NoLocation
     THEN LET s1 == [s0 EXCEPT !.location = locationData]
          IN IF formatTime(locationData.timezone, now) = RangeError
             THEN \* updateTime threw inside try: catch, then finally
                  finallyBlock([s1 EXCEPT
                     !.error = "Failed to load location data",
                     !.currentTime = formatTime(undefined, now)])
             ELSE finallyBlock([s1 EXCEPT
                     !.currentTime = formatTime(locationData.timezone, now),
                     !.error = null])
     ELSE finallyBlock([s0 EXCEPT
             !.requests = Append(@, [run |-> r, status |-> "inflight", response |-> Pending]),
             !.currentTime = formatTime(undefined, now),
             !.error = null])

\* fetchData after `await fetchGeoLocation()` has settled with `response`
\* for request i.  All setState calls of the continuation are batched into
\* one render.
fetchData(s, i, response) ==
  LET r == s.requests[i].run
      locationData == fetchGeoLocation(response)
      s0 == [s EXCEPT !.requests[i].status =
                 IF locationData = NoLocation THEN "failed" ELSE "ok",
                      !.requests[i].response = response]
  IN IF ~isMountedGuard(s, r) THEN s0
     ELSE IF locationData # NoLocation
     THEN LET s1 == [s0 EXCEPT !.location = locationData]
          IN IF formatTime(locationData.timezone, now) = RangeError
             THEN \* updateTime threw inside try: catch, then finally
                  finallyBlock([s1 EXCEPT
                     !.error = "Failed to load location data",
                     !.currentTime = formatTime(undefined, now)])
             ELSE finallyBlock([s1 EXCEPT
                     !.currentTime = formatTime(locationData.timezone, now),
                     !.error = null])
     ELSE finallyBlock([s0 EXCEPT
             !.currentTime = formatTime(undefined, now),
             !.error = null])

\* ------------------------------------------------------------------------
\* Effect: interval for auto-updating time
\* ------------------------------------------------------------------------
clearIntervalNoOp(ts, id) == ts

clearInterval(ts, id) == { t \in ts : t.id # id }

\* () => clearInterval(intervalId); no cleanup exists when the effect
\* returned early
TimerCleanup(s) ==
  IF s.intervalId = 0 THEN s
  ELSE [s EXCEPT !.timers = clearInterval(@, s.intervalId), !.intervalId = 0]

\* timer effect that waits for the location: `|| !location` in the guard
TimerEffectNeedsLocation(s) ==
  LET tz == LocTz(s.location)
  IN IF ~config.autoUpdateTime \/ s.location = NoLocation
     THEN [s EXCEPT !.timerDep = tz]
     ELSE IF formatTime(tz, now) = RangeError
     THEN [s EXCEPT !.timerDep = tz, !.phase = "crashed"]
     ELSE [s EXCEPT !.timerDep = tz,
                    !.currentTime = formatTime(tz, now),
                    !.intervalCount = @ + 1,
                    !.intervalId = s.intervalCount + 1,
                    !.timers = @ \cup {[id |-> s.intervalCount + 1, timezone |-> tz]}]

\* the effect body; an exception thrown by updateTime escapes the effect and
\* React unmounts the tree
TimerEffect(s) ==
  LET tz == LocTz(s.location)
  IN IF ~config.autoUpdateTime
     THEN [s EXCEPT !.timerDep = tz]
     ELSE IF formatTime(tz, now) = RangeError
     THEN [s EXCEPT !.timerDep = tz, !.phase = "crashed"]
     ELSE [s EXCEPT !.timerDep = tz,
                    !.currentTime = formatTime(tz, now),
                    !.intervalCount = @ + 1,
                    !.intervalId = s.intervalCount + 1,
                    !.timers = @ \cup {[id |-> s.intervalCount + 1, timezone |-> tz]}]

\* all cleanups of the component
Cleanups(s) == TimerCleanup(FetchCleanup(s))

\* ------------------------------------------------------------------------
\* Actions
\* ------------------------------------------------------------------------
GeoIdle == [response |-> [kind |-> "none", data |-> EmptyBody],
            locationData |-> NoLocation, done |-> FALSE]

Init ==
  /\ \E options \in OptionObjects : config = EffectiveConfig(mergeOptions(options))
  /\ strictMode \in BOOLEAN
  /\ \E k \in RandomDraws : visitorCount = generateVisitorCount(k)
  /\ location = NoLocation
  /\ currentTime = ""
  /\ isLoading = TRUE
  /\ error = null
  /\ phase = "rendered"
  /\ requests = << >>
  /\ isMounted = << >>
  /\ timers = {}
  /\ intervalId = 0
  /\ intervalCount = 0
  /\ timerDep = undefined
  /\ now = 0
  /\ rerender = RerenderIdle
  /\ geo = GeoIdle
  /\ merge = MergeIdle
  /\ FormAtRest
  /\ NavAtRest

\* the effects of the first render run; StrictMode then cleans them up and
\* runs them once more, within the same commit
RunEffects ==
  /\ phase = "rendered"
  /\ LET s1 == TimerEffect(FetchEffect(St))
         s2 == IF strictMode THEN TimerEffect(FetchEffect(Cleanups(s1))) ELSE s1
     IN Commit([s2 EXCEPT !.phase = "active"])
  /\ UNCHANGED <<visitorCount, config, strictMode, now, geo, merge, rerender, formVars, navVars>>

\* the lookup of request i settles with some response
Settle(i, response) ==
  /\ i \in 1..Len(requests)
  /\ requests[i].status = "inflight"
  /\ Commit(fetchData(St, i, response))
  /\ UNCHANGED <<visitorCount, config, strictMode, now, geo, merge, rerender, formVars, navVars>>

\* a render changed location?.timezone: the timer effect is cleaned up and
\* run again
FlushEffects ==
  /\ phase = "active"
  /\ LocTz(location) # timerDep
  /\ LET s1 == TimerEffect(TimerCleanup(St))
     IN Commit(IF s1.phase = "crashed" THEN Cleanups(s1) ELSE s1)
  /\ UNCHANGED <<visitorCount, config, strictMode, now, geo, merge, rerender, formVars, navVars>>

\* the callback of a live interval fires
Tick(t) ==
  /\ t \in timers
  /\ currentTime' = formatTime(t.timezone, now)
  /\ UNCHANGED <<visitorCount, location, isLoading, error, config, strictMode,
                 phase, requests, isMounted, timers, intervalId,
                 intervalCount, timerDep, now, geo, merge, rerender, formVars, navVars>>

\* the component unmounts: every effect's cleanup runs
Unmount ==
  /\ phase = "active"
  /\ Commit([Cleanups(St) EXCEPT !.phase = "unmounted"])
  /\ UNCHANGED <<visitorCount, config, strictMode, now, geo, merge, rerender, formVars, navVars>>

TimePasses ==
  /\ now < MaxNow
  /\ now' = now + 1
  /\ UNCHANGED <<visitorCount, location, currentTime, isLoading, error,
                 config, strictMode, phase, requests, isMounted, timers,
                 intervalId, intervalCount, timerDep, geo, merge, rerender, formVars, navVars>>

SettleLookup == \E i \in 1..Len(requests), response \in Responses : Settle(i, response)

TimerTick == \E t \in timers : Tick(t)

Next ==
  \/ RunEffects
  \/ SettleLookup
  \/ FlushEffects
  \/ TimerTick
  \/ Unmount
  \/ TimePasses

Spec == Init /\ [][Next]_vars

\* ------------------------------------------------------------------------
\* fetchGeoLocation on its own, over every response
\* ------------------------------------------------------------------------
AllResponses == Failures \cup { JsonResponse(d) : d \in AllBodies }

InitGeo ==
  /\ config = [autoUpdateTime |-> TRUE, fetchLocation |-> TRUE]
  /\ strictMode = FALSE
  /\ visitorCount = generateVisitorCount(0)
  /\ location = NoLocation
  /\ currentTime = ""
  /\ isLoading = TRUE
  /\ error = null
  /\ phase = "rendered"
  /\ requests = << >>
  /\ isMounted = << >>
  /\ timers = {}
  /\ intervalId = 0
  /\ intervalCount = 0
  /\ timerDep = undefined
  /\ now = 0
  /\ rerender = RerenderIdle
  /\ \E response \in AllResponses :
        geo = [response |-> response, locationData |-> NoLocation, done |-> FALSE]
  /\ merge = MergeIdle
  /\ FormAtRest
  /\ NavAtRest

GeoLookup ==
  /\ ~geo.done
  /\ geo' = [geo EXCEPT !.locationData = fetchGeoLocation(geo.response),
                         !.done = TRUE]
  /\ UNCHANGED <<visitorCount, location, currentTime, isLoading, error,
                 config, strictMode, phase, requests, isMounted, timers,
                 intervalId, intervalCount, timerDep, now, merge, rerender, formVars, navVars>>

NextGeo == GeoLookup

SpecGeo == InitGeo /\ [][NextGeo]_vars

\* ------------------------------------------------------------------------
\* Steps, recognised by what they change
\* ------------------------------------------------------------------------
\* request i leaves the "inflight" status in this step
Settles(i) ==
  /\ i \in 1..Len(requests)
  /\ requests[i].status = "inflight"
  /\ i \in 1..Len(requests')
  /\ requests'[i].status # "inflight"

\* the lookup of a run whose cleanup has already happened settles
StaleSettleStep == \E i \in 1..Len(requests) : Settles(i) /\ ~isMounted[requests[i].run]

\* the lookup of a run that is still live settles
LiveSettleStep == \E i \in 1..Len(requests) : Settles(i) /\ isMounted[requests[i].run]

\* the same, settling as a failure
LiveFailStep ==
  \E i \in 1..Len(requests) :
     Settles(i) /\ isMounted[requests[i].run] /\ requests'[i].status = "failed"

RequestsOfRun(r) == { i \in 1..Len(requests) : requests[i].run = r }

\* ------------------------------------------------------------------------
\* Properties
\* ------------------------------------------------------------------------

\* C1: once an activation has been deactivated (its effects cleaned up), the
\* settling of its lookup changes no field of the snapshot, and once the
\* component is gone (unmounted, or torn down after an effect threw) nothing
\* changes the snapshot any more.
C1_NoMutationAfterDeactivate ==
  [][(StaleSettleStep \/ phase \in {"unmounted", "crashed"}) =>
        snapshot' = snapshot]_vars

\* a lookup that succeeded after the unmount, on a snapshot still untouched
C1_Witness ==
  /\ phase = "unmounted"
  /\ isLoading
  /\ location = NoLocation
  /\ \E i \in 1..Len(requests) : requests[i].status = "ok"

\* C2 (as claimed): when the lookup of a live activation fails, the snapshot
\* afterwards has no location, a non-empty error and the local time.
C2_FailureSetsError ==
  [][LiveFailStep =>
       /\ location' = NoLocation
       /\ error' \notin {null, ""}
       /\ currentTime' = formatTime(undefined, now')]_vars

\* C3: isLoading is true until the effects run; it only ever changes from
\* true to false; with fetchLocation it changes in no other step than the
\* settling of a live lookup, and every such step leaves it false.
C3_IsLoadingOnce ==
  /\ [](phase = "rendered" => isLoading)
  /\ [][/\ (isLoading' # isLoading) =>
              /\ isLoading
              /\ ~isLoading'
              /\ (config.fetchLocation => LiveSettleStep)
        /\ LiveSettleStep => ~isLoading']_vars

\* a live lookup has failed and the activation goes on with isLoading false
C3_Witness ==
  /\ config.fetchLocation
  /\ phase = "active"
  /\ ~isLoading
  /\ \E i \in 1..Len(requests) :
        requests[i].status = "failed" /\ isMounted[requests[i].run]

\* C4: with fetchLocation = false no lookup is ever issued, isLoading is
\* false from the moment the effects have run, and location stays absent.
C4_FetchDisabled ==
  ~config.fetchLocation =>
     /\ requests = << >>
     /\ location = NoLocation
     /\ (phase # "rendered" => ~isLoading)

\* a disabled-lookup activation that has been ticking for the whole run
C4_Witness ==
  /\ ~config.fetchLocation
  /\ phase = "active"
  /\ now = MaxNow
  /\ currentTime = formatTime(undefined, MaxNow)

\* C5 (as claimed): once location is set, every later change of currentTime
\* is computed with the location's timezone.
C5_TimezoneAtUpdate ==
  [][(location # NoLocation /\ currentTime' # currentTime) =>
        currentTime' = formatTime(location.timezone, now')]_vars

\* C6 (as claimed): on a live activation, isLoading false implies that
\* currentTime is a formatted time, not the initial empty string.
C6_TimeOnceLoaded ==
  (phase = "active" /\ ~isLoading) => currentTime # ""

\* C7: every run of the fetch effect with fetchLocation issues exactly one
\* request, none is issued without fetchLocation, and no step in which a
\* lookup settles issues another one.
C7_OneLookupPerActivation ==
  /\ [](/\ \A i \in 1..Len(requests) : requests[i].run \in 1..Len(isMounted)
        /\ \A r \in 1..Len(isMounted) : Cardinality(RequestsOfRun(r)) = 1
        /\ (config.fetchLocation /\ phase # "rendered") => Len(isMounted) >= 1
        /\ ~config.fetchLocation => requests = << >>)
  /\ [][(\E i \in 1..Len(requests) : Settles(i)) =>
           Len(requests') = Len(requests)]_vars

\* the lookup of a live activation failed and nothing else is in flight
C7_Witness ==
  /\ phase = "active"
  /\ now = MaxNow
  /\ \E i \in 1..Len(requests) :
        requests[i].status = "failed" /\ isMounted[requests[i].run]
  /\ \A i \in 1..Len(requests) : requests[i].status # "inflight"

\* C8: there is never more than one live interval; there is none without
\* autoUpdateTime and none once the component is gone.
C8_AtMostOneTimer ==
  /\ Cardinality(timers) <= 1
  /\ \A t \in timers : t.id = intervalId
  /\ ~config.autoUpdateTime => timers = {}
  /\ phase \in {"unmounted", "crashed"} => timers = {}

\* the interval has been restarted because the timezone became known
C8_Witness ==
  /\ ~strictMode
  /\ phase = "active"
  /\ intervalCount = 2
  /\ timers = {[id |-> 2, timezone |-> "Europe/Paris"]}

\* the fallback of each field of the location
Fallback(f) ==
  CASE f = "city" -> "Unknown"
    [] f = "country" -> "Unknown"
    [] f = "countryCode" -> "XX"
    [] f = "region" -> ""
    [] f = "timezone" -> SystemTimeZone

\* the response field each field of the location is read from
ResponseField(f) ==
  CASE f = "city" -> "city"
    [] f = "country" -> "country_name"
    [] f = "countryCode" -> "country_code"
    [] f = "region" -> "region"
    [] f = "timezone" -> "timezone"

LocationFields == {"city", "country", "countryCode", "region", "timezone"}

GeoSucceeded == geo.done /\ geo.response.kind = "json"

\* C9 (as claimed): after a successful lookup every field of the location is
\* the response's value or one of the placeholders "Unknown" and "XX", never
\* undefined, and a response with all five fields is copied exactly.
C9_PlaceholdersAsClaimed ==
  GeoSucceeded =>
     /\ geo.locationData # NoLocation
     /\ \A f \in LocationFields :
           /\ geo.locationData[f] # undefined
           /\ geo.locationData[f] \in {geo.response.data[ResponseField(f)], "Unknown", "XX"}
     /\ (\A f \in LocationFields : geo.response.data[ResponseField(f)] # undefined) =>
           \A f \in LocationFields :
              geo.locationData[f] = geo.response.data[ResponseField(f)]

\* C9 (amended): every field is the response's value or that field's own
\* fallback ("Unknown", "Unknown", "XX", "" and the system timezone), never
\* undefined, and a response whose five fields are all non-empty is copied
\* exactly.
C9_Placeholders ==
  GeoSucceeded =>
     /\ geo.locationData # NoLocation
     /\ \A f \in LocationFields :
           /\ geo.locationData[f] # undefined
           /\ geo.locationData[f] \in {geo.response.data[ResponseField(f)], Fallback(f)}
     /\ (\A f \in LocationFields : geo.response.data[ResponseField(f)] \notin {undefined, ""}) =>
           \A f \in LocationFields :
              geo.locationData[f] = geo.response.data[ResponseField(f)]

\* a response with only country_name and timezone has been converted
C9_Witness ==
  /\ GeoSucceeded
  /\ geo.response.data = [EmptyBody EXCEPT !.country_name = "France",
                                           !.timezone = "Europe/Paris"]
  /\ geo.locationData = [city |-> "Unknown", country |-> "France",
                         countryCode |-> "XX", region |-> "",
                         timezone |-> "Europe/Paris"]

\* C10: visitorCount is 1247 plus an offset in 0..50 and never changes.
C10_VisitorCountStable ==
  /\ [](visitorCount \in (baseCount + 0)..(baseCount + maxVariation))
  /\ [][visitorCount' = visitorCount]_vars

\* the largest count, still there after a lookup and the last tick
C10_Witness ==
  /\ visitorCount = 1297
  /\ phase = "active"
  /\ ~isLoading
  /\ location # NoLocation
  /\ now = MaxNow
  /\ currentTime = formatTime(location.timezone, MaxNow)


\* C11 (as claimed): whatever the lookup answers, no exception escapes the
\* hook and the activation is never torn down by one.
C11_NoFatalError == phase # "crashed"

NetworkFailure == [kind |-> "network_error", data |-> EmptyBody]

\* a body that is not JSON, or JSON that is not an object
Unparseable(response) == response.kind \in {"parse_error", "json_null"}

\* a parsed object with a field missing or empty, or with a timezone that
\* Intl does not accept
MissingOrUnusable(response) ==
  /\ response.kind = "json"
  /\ \/ \E f \in Fields : response.data[f] \in {undefined, ""}
     \/ formatTime(response.data.timezone, 0) = RangeError

\* request i settles in this step while its run is live
LiveSettles(i) == Settles(i) /\ isMounted[requests[i].run]

\* location, error, isLoading, currentTime of a state record
SnapshotOf(s) == <<s.location, s.error, s.isLoading, s.currentTime>>

C13_ErrorOnlyOnFailure ==
  error # null =>
     /\ location = NoLocation
     /\ \E i \in 1..Len(requests) : requests[i].status = "failed"

\* ------------------------------------------------------------------------
\* The hook under the scheduling the platform guarantees: a live interval
\* keeps firing its callback, and React runs the effects a render has made
\* pending.
\* ------------------------------------------------------------------------
SpecFair == Spec /\ WF_vars(TimerTick) /\ WF_vars(FlushEffects)

\* a step that changes currentTime and nothing else: an interval callback
TickStep ==
  /\ currentTime' # currentTime
  /\ UNCHANGED <<visitorCount, location, isLoading, error, config, strictMode,
                 phase, requests, isMounted, timers, intervalId,
                 intervalCount, timerDep, now>>

\* C14: a live activation with autoUpdateTime always owns a live interval,
\* whatever the state of the lookup; every tick recomputes currentTime for
\* the current time; and as long as the activation lives, currentTime is
\* brought up to date again and again.
C14_ClockKeepsTicking ==
  /\ []((phase = "active" /\ config.autoUpdateTime) => Cardinality(timers) = 1)
  /\ [][TickStep => \E t \in timers : currentTime' = formatTime(t.timezone, now)]_vars
  /\ []((phase = "active" /\ config.autoUpdateTime) =>
          <>(\/ phase # "active"
             \/ \E t \in timers : currentTime = formatTime(t.timezone, now)))

\* the lookup has failed and the clock shows the latest second
C14_Witness ==
  /\ phase = "active"
  /\ config.autoUpdateTime
  /\ timers # {}
  /\ now = MaxNow
  /\ currentTime = formatTime(undefined, MaxNow)
  /\ error = null
  /\ \A i \in 1..Len(requests) : requests[i].status = "failed"
  /\ \E i \in 1..Len(requests) : isMounted[requests[i].run]

\* ------------------------------------------------------------------------
\* Footer: VisitorStats renders the snapshot
\* ------------------------------------------------------------------------
\* location text that looks at location only
LocationTextNoLoadingFlag ==
  IF location # NoLocation
  THEN location.city \o ", " \o location.countryCode
  ELSE "Loading..."

\* {isLoading ? 'Loading...' : location ? `${city}, ${countryCode}` : 'Unknown'}
LocationText ==
  IF isLoading THEN "Loading..."
  ELSE IF location # NoLocation
  THEN location.city \o ", " \o location.countryCode
  ELSE "Unknown"

\* the lookup of the live run has settled
LiveLookupSettled ==
  \E i \in 1..Len(requests) :
     isMounted[requests[i].run] /\ requests[i].status # "inflight"

\* C15: the location text is "Loading..." exactly while isLoading is true;
\* once the live lookup has settled it is "<city>, <countryCode>" if
\* location is present and "Unknown" otherwise; and once it is no longer
\* "Loading..." it never is again.
C15_LoadingPlaceholder ==
  /\ []((LocationText = "Loading...") <=> isLoading)
  /\ [](LiveLookupSettled =>
          LocationText = IF location # NoLocation
                         THEN location.city \o ", " \o location.countryCode
                         ELSE "Unknown")
  /\ [][LocationText # "Loading..." => LocationText' # "Loading..."]_vars

\* the footer shows the resolved city after a successful lookup
C15_Witness ==
  /\ phase = "active"
  /\ LiveLookupSettled
  /\ LocationText = "Paris, FR"

\* ------------------------------------------------------------------------
\* The option merge on its own, over every options object
\* ------------------------------------------------------------------------
HookParked ==
  /\ config = EffectiveConfig(DEFAULT_OPTIONS)
  /\ strictMode = FALSE
  /\ visitorCount = generateVisitorCount(0)
  /\ location = NoLocation
  /\ currentTime = ""
  /\ isLoading = TRUE
  /\ error = null
  /\ phase = "rendered"
  /\ requests = << >>
  /\ isMounted = << >>
  /\ timers = {}
  /\ intervalId = 0
  /\ intervalCount = 0
  /\ timerDep = undefined
  /\ now = 0
  /\ rerender = RerenderIdle

InitOptions ==
  /\ HookParked
  /\ NavAtRest
  /\ geo = GeoIdle
  /\ \E options \in OptionObjects :
        merge = [options |-> options, config |-> << >>, done |-> FALSE]
  /\ FormAtRest

MergeOptions ==
  /\ ~merge.done
  /\ merge' = [merge EXCEPT !.config = mergeOptions(merge.options), !.done = TRUE]
  /\ UNCHANGED <<visitorCount, location, currentTime, isLoading, error,
                 config, strictMode, phase, requests, isMounted, timers,
                 intervalId, intervalCount, timerDep, now, geo, rerender, formVars, navVars>>

NextOptions == MergeOptions

SpecOptions == InitOptions /\ [][NextOptions]_vars

\* C16: after the merge every option the caller's object does not contain
\* has its default (true, 1000, true), and every option it contains has the
\* caller's value.
C16_DefaultsAndOverrides ==
  merge.done =>
     /\ DOMAIN merge.config = OptionKeys
     /\ \A k \in OptionKeys :
           merge.config[k] = IF k \in DOMAIN merge.options
                             THEN merge.options[k]
                             ELSE DEFAULT_OPTIONS[k]
     /\ (DOMAIN merge.options = {}) =>
           /\ merge.config.autoUpdateTime = JsBool(TRUE)
           /\ merge.config.timeUpdateInterval = JsNum(1000)
           /\ merge.config.fetchLocation = JsBool(TRUE)

\* only fetchLocation was passed: it is overridden, the others are defaults
C16_Witness ==
  /\ merge.done
  /\ DOMAIN merge.options = {"fetchLocation"}
  /\ merge.options.fetchLocation = JsBool(FALSE)
  /\ merge.config = [autoUpdateTime     |-> JsBool(TRUE),
                     timeUpdateInterval |-> JsNum(1000),
                     fetchLocation      |-> JsBool(FALSE)]

\* ------------------------------------------------------------------------
\* Contact page: actions
\* ------------------------------------------------------------------------
hookVars == <<visitorCount, location, currentTime, isLoading, error, config,
              strictMode, phase, requests, isMounted, timers, intervalId,
              intervalCount, timerDep, now, geo, merge, rerender>>

InitForm ==
  /\ HookParked
  /\ NavAtRest
  /\ geo = GeoIdle
  /\ merge = MergeIdle
  /\ FormAtRest

\* the user edits an enabled input
Change(name, value) ==
  /\ ~isSubmitting
  /\ CommitForm(handleChange(FormSt, name, value))
  /\ UNCHANGED <<hookVars, navVars>>

ChangeField == \E name \in FormFields : \E value \in TypedValues(name) : Change(name, value)

\* the user submits through the enabled submit button
Submit ==
  /\ ~isSubmitting
  /\ CommitForm(handleSubmit(FormSt))
  /\ UNCHANGED <<hookVars, navVars>>

\* the oldest due timer fires
FireTimeout ==
  /\ Due # {}
  /\ LET i == CHOOSE j \in Due : \A k \in Due : j <= k
         f == [FormSt EXCEPT !.timeouts = RemoveAt(@, i)]
     IN CommitForm(IF timeouts[i].kind = "send" THEN sendCompleted(f) ELSE resetForm(f))
  /\ UNCHANGED <<hookVars, navVars>>

\* time passes while no timer is due
Advance ==
  /\ Due = {}
  /\ timeouts # << >>
  /\ timeouts' = [i \in 1..Len(timeouts) |->
                    [timeouts[i] EXCEPT !.remaining = @ - TimeStep]]
  /\ UNCHANGED <<formData, errors, isSubmitting, isSubmitted>>
  /\ UNCHANGED <<hookVars, navVars>>

NextForm == ChangeField \/ Submit \/ FireTimeout \/ Advance

SpecForm == InitForm /\ [][NextForm]_vars

\* ------------------------------------------------------------------------
\* handleSubmit on its own, over every combination of field values
\* ------------------------------------------------------------------------
\* errors as earlier submissions and edits can have left them
PriorErrors == { << >>, validateForm(EmptyForm),
                 [f \in {"name"} |-> undefined] }

InitSubmit ==
  /\ HookParked
  /\ NavAtRest
  /\ geo = GeoIdle
  /\ merge = MergeIdle
  /\ formData \in [name : FieldValues("name"), email : FieldValues("email"),
                   company : FieldValues("company"), subject : FieldValues("subject"),
                   message : FieldValues("message")]
  /\ errors \in PriorErrors
  /\ isSubmitting = FALSE
  /\ isSubmitted \in BOOLEAN
  /\ timeouts = IF isSubmitted
                THEN << [kind |-> "reset", remaining |-> ResetDelay] >>
                ELSE << >>

NextSubmit == Submit

SpecSubmit == InitSubmit /\ [][NextSubmit]_vars

\* the requirements on the field values, field by field
FieldOk(f, fd) ==
  CASE f = "name"    -> Len(trim(fd.name)) >= 2
    [] f = "email"   -> trim(fd.email) # << >> /\ isValidEmail(fd.email)
    [] f = "subject" -> fd.subject # << >>
    [] f = "message" -> Len(trim(fd.message)) >= 10
    [] OTHER -> TRUE

MeetsRequirements(fd) == \A f \in FormFields : FieldOk(f, fd)

\* C17: a submit of the idle form starts a submission exactly if name,
\* email, subject and message meet their requirements; company never matters.
C17_SubmitIffValid ==
  [][~isSubmitting => (isSubmitting' <=> MeetsRequirements(formData))]_vars

\* a submission has started although company is empty
C17_Witness ==
  /\ isSubmitting
  /\ formData = [name |-> <<"A", "l">>, email |-> <<"a", "@", "b", ".", "c">>,
                 company |-> << >>, subject |-> <<"w", "e", "b">>,
                 message |-> <<"!">> \o NineChars]
  /\ timeouts # << >>
  /\ timeouts[Len(timeouts)] = [kind |-> "send", remaining |-> SendDelay]

\* C19: a submit that fails validation leaves formData, isSubmitting,
\* isSubmitted and the timers alone, and errors then has a message for
\* exactly the invalid fields among name, email, subject and message.
C19_InvalidSubmitOnlySetsErrors ==
  [][(~isSubmitting /\ ~MeetsRequirements(formData)) =>
        /\ formData' = formData
        /\ isSubmitting' = isSubmitting
        /\ isSubmitted' = isSubmitted
        /\ timeouts' = timeouts
        /\ DOMAIN errors' = { f \in FormFields : ~FieldOk(f, formData) }
        /\ "company" \notin DOMAIN errors'
        /\ \A f \in DOMAIN errors' : errors'[f] \notin {undefined, ""}]_vars

\* a rejected submit during the success state: only errors has changed
C19_Witness ==
  /\ ~isSubmitting
  /\ isSubmitted
  /\ formData.email = <<" ", "a", "@", "b", ".", "c">>
  /\ formData.message = <<" ">> \o NineChars
  /\ formData.name = <<"A", "l">>
  /\ formData.subject # << >>
  /\ errors = [email   |-> "Please enter a valid email address",
               message |-> "Message must be at least 10 characters"]

\* ------------------------------------------------------------------------
\* Contact page: steps, recognised by what they change
\* ------------------------------------------------------------------------
PendingTimeouts(kind) == { i \in 1..Len(timeouts) : timeouts[i].kind = kind }

\* the simulated send completes in this step
SendCompletes == Cardinality(PendingTimeouts("send")) > Cardinality({ i \in 1..Len(timeouts') : timeouts'[i].kind = "send" })

\* a reset timer fires in this step
ResetFires == Cardinality(PendingTimeouts("reset")) > Cardinality({ i \in 1..Len(timeouts') : timeouts'[i].kind = "reset" })

\* C18: isSubmitting is true exactly while a simulated send is pending; the
\* step that completes the send leaves isSubmitting false and isSubmitted
\* true and starts a reset timer of 3000 ms; the step in which a reset timer
\* fires leaves every field empty and isSubmitted false.
C18_SubmissionLifecycle ==
  /\ [](isSubmitting <=> PendingTimeouts("send") # {})
  /\ [](\A i \in PendingTimeouts("send") : timeouts[i].remaining <= SendDelay)
  /\ [][SendCompletes =>
          /\ ~isSubmitting'
          /\ isSubmitted'
          /\ timeouts'[Len(timeouts')] = [kind |-> "reset", remaining |-> ResetDelay]]_vars
  /\ [][ResetFires => (formData' = EmptyForm /\ ~isSubmitted')]_vars

\* the send has completed and the 3000 ms of its reset timer have passed
C18_Witness ==
  /\ ~isSubmitting
  /\ isSubmitted
  /\ formData.name = <<"A", "l">>
  /\ timeouts = << [kind |-> "reset", remaining |-> 0] >>

\* C20 (as claimed): at most one submission is in flight, and the field
\* values do not change while isSubmitting is true.
C20_OneSubmissionFrozenFields ==
  /\ [](Cardinality(PendingTimeouts("send")) <= 1)
  /\ [][isSubmitting => formData' = formData]_vars

\* a non-empty form that fails validation while a reset timer is pending: a
\* submission starts only from a valid form and the inputs are disabled
\* until its send completes, so these values were typed after it succeeded
TypedAfterSuccess == formData # EmptyForm /\ ~MeetsRequirements(formData)

\* C21 (as claimed): a reset timer that fires neither erases values typed
\* after its submission succeeded nor ends the success state of a later
\* submission, whose own reset timer is still pending.
C21_ResetOnlyOwnSubmission ==
  /\ [][(ResetFires /\ TypedAfterSuccess) => formData' = formData]_vars
  /\ [][(ResetFires /\ \E i \in 1..Len(timeouts') : timeouts'[i].kind = "reset")
          => isSubmitted']_vars

\* ------------------------------------------------------------------------
\* handleChange on its own, over every form and every error object
\* ------------------------------------------------------------------------
InitChange ==
  /\ HookParked
  /\ NavAtRest
  /\ geo = GeoIdle
  /\ merge = MergeIdle
  /\ formData \in [name : FieldValues("name"), email : FieldValues("email"),
                   company : FieldValues("company"), subject : FieldValues("subject"),
                   message : FieldValues("message")]
  /\ errors \in PriorErrors \cup {validateForm(formData)}
  /\ isSubmitting = FALSE
  /\ isSubmitted \in BOOLEAN
  /\ timeouts = IF isSubmitted
                THEN << [kind |-> "reset", remaining |-> ResetDelay] >>
                ELSE << >>

\* the user edits one input
ChangeAny == \E name \in FormFields : \E value \in FieldValues(name) : Change(name, value)

NextChange == ChangeAny

SpecChange == InitChange /\ [][NextChange]_vars

\* C22: a change of one field sets that field's value and clears that
\* field's error; the other fields' values and errors, isSubmitting,
\* isSubmitted and the timers are unchanged.
C22_ChangeTouchesOneField ==
  [][\E name \in FormFields :
        /\ formData'[name] \in FieldValues(name)
        /\ ErrorOf(errors', name) = undefined
        /\ \A f \in FormFields \ {name} :
              /\ formData'[f] = formData[f]
              /\ ErrorOf(errors', f) = ErrorOf(errors, f)
        /\ isSubmitting' = isSubmitting
        /\ isSubmitted' = isSubmitted
        /\ timeouts' = timeouts]_vars

\* the email was retyped: its error is cleared, the message's error stays
C22_Witness ==
  /\ formData.email = <<"a", "@", "b", ".", "c">>
  /\ formData.message = NineChars
  /\ "email" \in DOMAIN errors
  /\ errors["email"] = undefined
  /\ ErrorOf(errors, "message") = "Message must be at least 10 characters"
  /\ ErrorOf(errors, "name") = "Name is required"
  /\ isSubmitted

\* ------------------------------------------------------------------------
\* The hook re-rendered with other options: effects whose dependencies
\* changed are cleaned up and run again
\* ------------------------------------------------------------------------
MaxRerenders == 2

\* the component renders with the caller's new options object; intervalChanged
\* tells whether timeUpdateInterval differs from the previous render's
Rerender(options, intervalChanged) ==
  /\ phase = "active"
  /\ rerender.stale = {}
  /\ rerender.count < MaxRerenders
  /\ config' = EffectiveConfig(mergeOptions(options))
  /\ rerender' = [stale |-> { e \in {"fetch", "timer"} :
                      \/ e = "fetch" /\ config'.fetchLocation # config.fetchLocation
                      \/ e = "timer" /\ config'.autoUpdateTime # config.autoUpdateTime
                      \/ e = "timer" /\ intervalChanged },
                  count |-> rerender.count + 1]
  /\ UNCHANGED <<visitorCount, location, currentTime, isLoading, error,
                 strictMode, phase, requests, isMounted, timers, intervalId,
                 intervalCount, timerDep, now, geo, merge, formVars, navVars>>

OptionsChange ==
  \E options \in OptionObjects, intervalChanged \in BOOLEAN :
     Rerender(options, intervalChanged)

\* the passive effects of that render: the cleanups of the effects whose
\* dependencies changed, then their bodies
FlushStale ==
  /\ phase = "active"
  /\ rerender.stale # {}
  /\ LET fetchStale == "fetch" \in rerender.stale
         timerStale == "timer" \in rerender.stale \/ LocTz(location) # timerDep
         c1 == IF fetchStale THEN FetchCleanup(St) ELSE St
         c2 == IF timerStale THEN TimerCleanup(c1) ELSE c1
         e1 == IF fetchStale THEN FetchEffect(c2) ELSE c2
         e2 == IF timerStale THEN TimerEffect(e1) ELSE e1
     IN Commit(IF e2.phase = "crashed" THEN Cleanups(e2) ELSE e2)
  /\ rerender' = [rerender EXCEPT !.stale = {}]
  /\ UNCHANGED <<visitorCount, config, strictMode, now, geo, merge, formVars, navVars>>

\* the timezone alone changed
FlushTimezone == rerender.stale = {} /\ FlushEffects

\* the answers a lookup gets here: a failure, a usable body, and a body
\* whose timezone makes formatTime throw
RerunResponses == { [kind |-> "network_error", data |-> EmptyBody],
                    JsonResponse(ParisBody),
                    JsonResponse([ParisBody EXCEPT !.timezone = "Mars/Phobos"]) }

SettleRerun == \E i \in 1..Len(requests), response \in RerunResponses : Settle(i, response)

\* as Init, with one visitor count
InitRerun ==
  /\ \E options \in OptionObjects : config = EffectiveConfig(mergeOptions(options))
  /\ strictMode \in BOOLEAN
  /\ visitorCount = generateVisitorCount(0)
  /\ location = NoLocation
  /\ currentTime = ""
  /\ isLoading = TRUE
  /\ error = null
  /\ phase = "rendered"
  /\ requests = << >>
  /\ isMounted = << >>
  /\ timers = {}
  /\ intervalId = 0
  /\ intervalCount = 0
  /\ timerDep = undefined
  /\ now = 0
  /\ geo = GeoIdle
  /\ merge = MergeIdle
  /\ rerender = RerenderIdle
  /\ NavAtRest
  /\ FormAtRest

NextRerun ==
  \/ RunEffects
  \/ SettleRerun
  \/ FlushTimezone
  \/ TimerTick
  \/ Unmount
  \/ TimePasses
  \/ OptionsChange
  \/ FlushStale

SpecRerun == InitRerun /\ [][NextRerun]_vars

\* C23: the lookup of a run that was cleaned up changes no field of the
\* snapshot when it settles; only the latest run of the fetch effect can
\* still be live; and every step that starts an interval leaves no interval
\* of an earlier run alive.
C23_RerunSupersedesEarlierRun ==
  /\ [][StaleSettleStep => snapshot' = snapshot]_vars
  /\ [](\A r \in 1..Len(isMounted) : isMounted[r] => r = Len(isMounted))
  /\ [][intervalCount' # intervalCount =>
          \A t \in timers' : t.id = intervalCount']_vars
  /\ [](Cardinality(timers) <= 1)

\* fetchLocation was switched off and on again: the first run's lookup
\* succeeded after its cleanup and left the snapshot without a location,
\* and only the third interval is alive
C23_Witness ==
  /\ ~strictMode
  /\ phase = "active"
  /\ rerender = [stale |-> {}, count |-> MaxRerenders]
  /\ isMounted = <<FALSE, TRUE>>
  /\ Len(requests) = 2
  /\ requests[1].status = "ok"
  /\ requests[2].status = "inflight"
  /\ location = NoLocation
  /\ intervalCount = 3
  /\ timers = {[id |-> 3, timezone |-> undefined]}

\* ------------------------------------------------------------------------
\* Navbar: actions
\* ------------------------------------------------------------------------
InitNav ==
  /\ config = EffectiveConfig(DEFAULT_OPTIONS)
  /\ strictMode \in BOOLEAN
  /\ visitorCount = generateVisitorCount(0)
  /\ location = NoLocation
  /\ currentTime = ""
  /\ isLoading = TRUE
  /\ error = null
  /\ phase = "rendered"
  /\ requests = << >>
  /\ isMounted = << >>
  /\ timers = {}
  /\ intervalId = 0
  /\ intervalCount = 0
  /\ timerDep = undefined
  /\ now = 0
  /\ rerender = RerenderIdle
  /\ geo = GeoIdle
  /\ merge = MergeIdle
  /\ FormAtRest
  /\ pathname \in Hrefs      \* the page is loaded at one of the linked routes
  /\ isMenuOpen = FALSE
  /\ isScrolled = FALSE
  /\ bodyOverflow = ""
  /\ navPhase = "rendered"
  /\ activeLinks = ActiveLinks(pathname)

NavFrame == UNCHANGED <<hookVars, formVars>>

\* the effects of the first render run
MountNavbar ==
  /\ navPhase = "rendered"
  /\ CommitNav([MountEffects(NavSt) EXCEPT !.navPhase = "mounted"])
  /\ NavFrame

\* the hamburger button: setIsMenuOpen(!isMenuOpen)
ToggleMenu ==
  /\ navPhase = "mounted"
  /\ CommitNav(Render(NavSt, pathname, ~isMenuOpen))
  /\ NavFrame

\* the backdrop or the panel's close button, both rendered while open
CloseMenu ==
  /\ navPhase = "mounted"
  /\ isMenuOpen
  /\ CommitNav(Render(NavSt, pathname, FALSE))
  /\ NavFrame

\* a link of the open menu: setIsMenuOpen(false) and the navigation
ClickMenuLink(href) ==
  /\ navPhase = "mounted"
  /\ isMenuOpen
  /\ CommitNav(Render(NavSt, href, FALSE))
  /\ NavFrame

MenuLink == \E href \in Hrefs : ClickMenuLink(href)

\* the route changes by other means: a desktop link, the logo, a link of
\* the page, the browser's history
Navigate(path) ==
  /\ navPhase = "mounted"
  /\ CommitNav(Render(NavSt, path, isMenuOpen))
  /\ NavFrame

RouteChange == \E path \in Pathnames : Navigate(path)

\* handleScroll
Scroll(scrollY) ==
  /\ navPhase = "mounted"
  /\ isScrolled' = (scrollY > ScrollThreshold)
  /\ UNCHANGED <<pathname, isMenuOpen, bodyOverflow, navPhase, activeLinks>>
  /\ NavFrame

ScrollEvent == \E scrollY \in {0, ScrollThreshold, ScrollThreshold + 1} : Scroll(scrollY)

\* the Navbar unmounts: the cleanups run
UnmountNavbar ==
  /\ navPhase = "mounted"
  /\ CommitNav([scrollLockCleanup(NavSt) EXCEPT !.navPhase = "unmounted"])
  /\ NavFrame

NextNav ==
  \/ MountNavbar
  \/ ToggleMenu
  \/ CloseMenu
  \/ MenuLink
  \/ RouteChange
  \/ ScrollEvent
  \/ UnmountNavbar

SpecNav == InitNav /\ [][NextNav]_vars

\* C24: every step that changes the pathname leaves the mobile menu closed.
C24_MenuClosedAfterRouteChange ==
  [][pathname' # pathname => ~isMenuOpen']_vars

\* the route changed to a page that no menu link leads to; the menu is
\* closed and the page scrolls
C24_Witness ==
  /\ navPhase = "mounted"
  /\ pathname = <<"/", "b", "l", "o", "g">>
  /\ ~isMenuOpen
  /\ bodyOverflow = ""
  /\ isScrolled

\* C25: while the Navbar is mounted the body's overflow is 'hidden' exactly
\* if the menu is open, and it is '' before the mount and after the unmount.
C25_ScrollLockMatchesMenu ==
  /\ bodyOverflow \in {"", "hidden"}
  /\ navPhase = "mounted" => (bodyOverflow = "hidden" <=> isMenuOpen)
  /\ navPhase # "mounted" => bodyOverflow = ""

\* unmounted with the menu open: the lock is released
C25_Witness ==
  /\ navPhase = "unmounted"
  /\ isMenuOpen
  /\ bodyOverflow = ""

\* C26: in every render at most one link is active; Home exactly on '/',
\* every other link exactly on the pathnames that start with its href.
C26_AtMostOneActiveLink ==
  /\ Cardinality(activeLinks) <= 1
  /\ (<<"/">> \in activeLinks) <=> (pathname = <<"/">>)
  /\ \A href \in Hrefs \ {<<"/">>} :
        (href \in activeLinks) <=> startsWith(pathname, href)

\* on /about/us the About link alone is active
C26_Witness ==
  /\ navPhase = "mounted"
  /\ pathname = <<"/", "a", "b", "o", "u", "t", "/", "u", "s">>
  /\ activeLinks = {<<"/", "a", "b", "o", "u", "t">>}

TypeOK ==
  /\ visitorCount \in Int
  /\ isLoading \in BOOLEAN
  /\ phase \in {"rendered", "active", "unmounted", "crashed"}
  /\ currentTime # RangeError

====
